---- MODULE Spec2Model ----
(***************************************************************************)
(* Model of the StockScanner-IN-AU screening pipeline: the BTST scan and   *)
(* the India and Australia swing scans, their criteria checks, and the     *)
(* target / stop-loss derivation.                                          *)
(*                                                                         *)
(* Units.  Floats of the program are integers here:                        *)
(*   day_change_pct, high_proximity_pct   hundredths of a percent          *)
(*   Volume_Ratio, debt_to_equity, sector weight   hundredths              *)
(*   RSI, roe, 52W_High_Proximity         whole units                      *)
(*   Close, EMA_20, EMA_50, SMA_200       thousandths of a currency unit   *)
(*   score                                hundredths of a point            *)
(*   target, stop_loss, current_price     cents                            *)
(* A not-a-number is the value NaN; every ordered comparison with it is    *)
(* false, as in IEEE arithmetic.                                           *)
(***************************************************************************)
EXTENDS Integers, Sequences, FiniteSets, TLC

VARIABLES
    policy,               \* which scanner runs: "BTST", "IN" (SwingScanner), "AU"
    symbols,              \* the symbols argument of the scan
    max_results,          \* the max_results argument: [given, v]
    pc,                   \* position inside the scan
    current_data_dict,    \* BTST: symbol -> snapshot or None
    fundamentals_dict,    \* symbol -> fundamentals or None
    historical_data_dict, \* symbol -> raw series or None
    filtered_symbols,     \* the pre-filter survivors, in dict order
    i,                    \* index of the next symbol of the analysis loop
    candidates,           \* candidates appended so far
    result,               \* the returned list
    requests,             \* retrievals requested from the collaborator, in order
    call,                 \* direct call of a criteria / target function: inputs
    ret                   \* ... and what it returned

vars == <<policy, symbols, max_results, pc, current_data_dict, fundamentals_dict,
          historical_data_dict, filtered_symbols, i, candidates, result, requests,
          call, ret>>

scanvars == <<policy, symbols, max_results, pc, current_data_dict, fundamentals_dict,
              historical_data_dict, filtered_symbols, i, candidates, result, requests>>

(***************************************************************************)
(* Values                                                                  *)
(***************************************************************************)
NaN == -1000000

None == [none |-> TRUE]

GT_Never(a, b) == FALSE
GT(a, b) == a # NaN /\ b # NaN /\ a > b
GE_Strict(a, b) == a # NaN /\ b # NaN /\ a > b
GE(a, b) == a # NaN /\ b # NaN /\ a >= b
LT(a, b) == a # NaN /\ b # NaN /\ a < b
LE(a, b) == a # NaN /\ b # NaN /\ a <= b

Policies == {"BTST", "IN", "AU"}

(***************************************************************************)
(* Configuration                                                           *)
(***************************************************************************)
min_gain_percent == 200
max_gain_percent == 350
btst_min_volume_multiplier == 150
btst_max_results == 10
btst_min_score == 60
btst_days == 50

BTST_EXCLUDED_SECTORS == {"IT", "PHARMA"}
SWING_PREFERRED_SECTORS ==
    {"DEFENCE", "CAPITAL GOODS", "INFRASTRUCTURE", "PSU BANKS", "RENEWABLE ENERGY"}

in_min_market_cap == 5000
in_max_debt_to_equity == 50
in_min_roe == 15
in_rsi_min == 40
in_rsi_max == 60
in_min_volume_multiplier == 120
in_max_results == 15
in_min_score == 65
in_days == 100

au_min_market_cap == 50000
au_max_debt_to_equity == 100
au_min_roe == 10
au_rsi_min == 35
au_rsi_max == 65
au_min_52w_high_proximity == 85
au_max_52w_high_proximity == 98
au_min_volume_ratio == 120
au_max_results == 15
au_min_score == 60
au_days == 300

sma_long == 200
volume_lookback == 20
w52_min_periods == 50
MinBars == 50

sector_weights(sector) ==
    CASE sector = "Materials" -> 120
      [] sector = "Energy" -> 115
      [] sector = "Financials" -> 100
      [] sector = "Consumer Discretionary" -> 100
      [] sector = "Industrials" -> 100
      [] sector = "Information Technology" -> 80
      [] sector = "Health Care" -> 90
      [] sector = "Communication Services" -> 85
      [] sector = "Consumer Staples" -> 95
      [] sector = "Utilities" -> 90
      [] sector = "Real Estate" -> 85
      [] OTHER -> 100

min_market_cap(p) == IF p = "AU" THEN au_min_market_cap ELSE in_min_market_cap
max_debt_to_equity(p) == IF p = "AU" THEN au_max_debt_to_equity ELSE in_max_debt_to_equity
min_roe(p) == IF p = "AU" THEN au_min_roe ELSE in_min_roe
rsi_min(p) == IF p = "AU" THEN au_rsi_min ELSE in_rsi_min
rsi_max(p) == IF p = "AU" THEN au_rsi_max ELSE in_rsi_max
min_score(p) ==
    CASE p = "BTST" -> btst_min_score [] p = "IN" -> in_min_score [] OTHER -> au_min_score
default_max_results(p) ==
    CASE p = "BTST" -> btst_max_results [] p = "IN" -> in_max_results [] OTHER -> au_max_results
lookback_days(p) ==
    CASE p = "BTST" -> btst_days [] p = "IN" -> in_days [] OTHER -> au_days

(***************************************************************************)
(* Series and indicators.                                                  *)
(* A raw series, as the collaborator returns it, is                        *)
(*   [len, columns, bars]                                                  *)
(* len the number of bars, columns the price columns the frame carries,    *)
(* and bars the values that the ewm / rolling arithmetic yields from the   *)
(* bars on the last two rows, wherever a full window exists.  An extended  *)
(* series is [len, columns, latest, prev]: latest and prev map a column    *)
(* name to the value on the last and the last-but-one row.                 *)
(***************************************************************************)
rsi_period == 14

IndicatorColumns ==
    {"EMA_20", "EMA_50", "SMA_200", "RSI", "MACD", "MACD_Signal", "MACD_Hist"}
VolumeColumns == {"Volume_Avg_20", "Volume_Ratio"}
W52Columns == {"52W_High", "52W_Low", "52W_High_Proximity"}
AllColumns == {"Close", "Volume"} \cup IndicatorColumns \cup VolumeColumns \cup W52Columns

\* rolling(window=w): no value before w bars exist
Rolling(len, w, v) == IF len < w THEN NaN ELSE v

LatestRow(df) ==
    [c \in AllColumns |->
        CASE c = "Close" -> df.bars.close
          [] c = "EMA_20" -> df.bars.ema_20
          [] c = "EMA_50" -> df.bars.ema_50
          [] c = "SMA_200" -> Rolling(df.len, sma_long, df.bars.sma_200)
          [] c = "RSI" -> Rolling(df.len, rsi_period, df.bars.rsi)
          [] c = "MACD" -> df.bars.macd
          [] c = "MACD_Signal" -> df.bars.macd_signal
          [] c = "MACD_Hist" -> df.bars.macd - df.bars.macd_signal
          [] c = "Volume_Ratio" -> Rolling(df.len, volume_lookback, df.bars.volume_ratio)
          [] c = "52W_High_Proximity" -> Rolling(df.len, w52_min_periods, df.bars.w52_high_proximity)
          [] OTHER -> 0]

PrevRow(df) ==
    [c \in AllColumns |->
        CASE c = "EMA_20" -> df.bars.prev_ema_20
          [] c = "EMA_50" -> df.bars.prev_ema_50
          [] c = "MACD_Hist" -> df.bars.prev_macd_hist
          [] OTHER -> 0]

Extended(df, cols) ==
    [len |-> df.len, columns |-> df.columns \cup cols,
     latest |-> LatestRow(df), prev |-> PrevRow(df)]

\* src/src/data_fetcher.py: the statements run in order inside one try; a
\* missing column raises KeyError at the first statement that reads it, the
\* except clause logs it, and the frame is returned with the columns added
\* up to that statement.
calculate_technical_indicators(df) ==
    IF df = None \/ df.len = 0 THEN df
    ELSE IF "Close" \notin df.columns THEN Extended(df, {})
    ELSE IF "Volume" \notin df.columns THEN Extended(df, IndicatorColumns)
    ELSE Extended(df, IndicatorColumns \cup VolumeColumns)

\* src/src/shared/data_fetcher.py: the same, plus the 52-week columns for
\* the Australian market.
shared_calculate_technical_indicators(df, market) ==
    IF df = None \/ df.len = 0 THEN df
    ELSE IF "Close" \notin df.columns THEN Extended(df, {})
    ELSE IF "Volume" \notin df.columns THEN Extended(df, IndicatorColumns)
    ELSE IF market = "australia"
         THEN Extended(df, IndicatorColumns \cup VolumeColumns \cup W52Columns)
         ELSE Extended(df, IndicatorColumns \cup VolumeColumns)

\* the computation raised (and was swallowed) for this raw series
IndicatorsRaised(df) ==
    df # None /\ df.len > 0 /\ ~({"Close", "Volume"} \subseteq df.columns)

\* The RSI statements on one full window.  closes holds the rsi_period + 1
\* closes that end at the bar, delta the rsi_period differences between
\* them.  gain and loss are the rolling sums of the positive deltas and of
\* the magnitudes of the negative ones (the code takes the means; the
\* common divisor cancels in gain / loss).  The float quotient gain / loss
\* is inf for loss = 0 < gain, which makes the RSI 100, and NaN for 0 / 0.
\* Otherwise 100 - 100 / (1 + gain / loss) = 100 * gain / (gain + loss),
\* here truncated to a whole number.
diff(closes) == [k \in 1..(Len(closes) - 1) |-> closes[k + 1] - closes[k]]

RECURSIVE Sum(_)
Sum(seq) == IF seq = <<>> THEN 0 ELSE Head(seq) + Sum(Tail(seq))

rolling_gain(delta) == Sum([k \in 1..Len(delta) |-> IF delta[k] > 0 THEN delta[k] ELSE 0])
rolling_loss(delta) == Sum([k \in 1..Len(delta) |-> IF delta[k] < 0 THEN -delta[k] ELSE 0])

calculate_rsi(closes) ==
    LET delta == diff(closes)
        gain == rolling_gain(delta)
        loss == rolling_loss(delta)
    IN  IF loss = 0 THEN (IF gain = 0 THEN NaN ELSE 100)
        ELSE (100 * gain) \div (gain + loss)

\* Series.get(column, default)
Get(row, df, c, default) == IF c \in df.columns THEN row[c] ELSE default

(***************************************************************************)
(* Criteria checks.  A check returns                                       *)
(*   [raised, passes, score, entry_type, reason, sector_weight]            *)
(* reason is the list of the reason tags joined by "; " in the program.    *)
(***************************************************************************)
Raised ==
    [raised |-> TRUE, passes |-> FALSE, score |-> 0, entry_type |-> "",
     reason |-> <<>>, sector_weight |-> 100]

Returned(passes, score, entry_type, reason, weight) ==
    [raised |-> FALSE, passes |-> passes, score |-> score, entry_type |-> entry_type,
     reason |-> reason, sector_weight |-> weight]

btst_pass_ThresholdLow(score) == score >= 50

btst_pass(score) == score >= btst_min_score

check_btst_criteria(current_data, historical_df, fundamentals) ==
    LET day_change == current_data.day_change_pct
        gain == IF GE(day_change, min_gain_percent) /\ LE(day_change, max_gain_percent)
                THEN [s |-> 30, r |-> <<"Gain ideal 2-3%">>, stop |-> FALSE]
                ELSE IF GT(day_change, max_gain_percent)
                THEN [s |-> 15, r |-> <<"Gain >3%, may be overbought">>, stop |-> FALSE]
                ELSE [s |-> 0, r |-> <<"Gain below 2%">>, stop |-> TRUE]
        hasdf == historical_df # None /\ historical_df.len > 0
        vol == IF hasdf /\ "Volume_Ratio" \in historical_df.columns
               THEN IF GE(historical_df.latest["Volume_Ratio"], btst_min_volume_multiplier)
                    THEN [s |-> 25, r |-> <<"Volume x average">>]
                    ELSE [s |-> 10, r |-> <<"Volume below 1.5x">>]
               ELSE [s |-> 0, r |-> <<>>]
        high_prox == current_data.high_proximity_pct
        prox == IF GE(high_prox, 9000) THEN [s |-> 20, r |-> <<"Closing near high">>]
                ELSE IF GE(high_prox, 8000) THEN [s |-> 15, r |-> <<"Near high">>]
                ELSE [s |-> 5, r |-> <<"Not near high">>]
        \* historical_df.iloc[-1] on an empty frame raises IndexError; the
        \* collaborator never stores an empty frame
        trend == IF historical_df # None /\ "EMA_20" \in historical_df.columns
                 THEN IF GT(historical_df.latest["Close"], historical_df.latest["EMA_20"])
                      THEN [s |-> 15, r |-> <<"Above 20 EMA">>]
                      ELSE [s |-> 5, r |-> <<"Below 20 EMA">>]
                 ELSE [s |-> 0, r |-> <<>>]
        sector == fundamentals.sector
        sec == IF sector \notin BTST_EXCLUDED_SECTORS
               THEN [s |-> 10, r |-> <<"Sector">>]
               ELSE [s |-> 0, r |-> <<"Excluded sector">>]
        score == gain.s + vol.s + prox.s + trend.s + sec.s
    IN  IF gain.stop THEN Returned(FALSE, 0, "", gain.r, 100)
        ELSE Returned(btst_pass(score), score * 100, "",
                      gain.r \o vol.r \o prox.r \o trend.r \o sec.r, 100)

\* The hard fundamental gates of check_swing_criteria, in program order:
\* the tag of the first gate that rejects, or "" when none does.
hard_gate_DebtFirst(p, fundamentals) ==
    IF fundamentals.debt_to_equity > max_debt_to_equity(p) THEN "High debt"
    ELSE IF fundamentals.market_cap < min_market_cap(p) THEN "Market cap too small"
    ELSE IF fundamentals.roe < min_roe(p) THEN "Low ROE"
    ELSE ""

hard_gate_NoRoe(p, fundamentals) ==
    IF fundamentals.market_cap < min_market_cap(p) THEN "Market cap too small"
    ELSE IF fundamentals.debt_to_equity > max_debt_to_equity(p) THEN "High debt"
    ELSE ""

hard_gate(p, fundamentals) ==
    IF fundamentals.market_cap < min_market_cap(p) THEN "Market cap too small"
    ELSE IF fundamentals.debt_to_equity > max_debt_to_equity(p) THEN "High debt"
    ELSE IF fundamentals.roe < min_roe(p) THEN "Low ROE"
    ELSE ""

\* passes = score >= threshold, on the score before the sector weight
swing_pass_Weighted(p, score, weighted_score) == weighted_score >= min_score(p) * 100

swing_pass(p, score, weighted_score) == score >= min_score(p)

\* The RSI bands below the ideal one are literals in both scanners:
\* India "30 < rsi < 40" and "rsi > 60", Australia "30 < rsi < 35" and
\* "rsi > 65".
pullback_floor == 30
in_pullback_ceiling == 40
au_pullback_ceiling == 35
in_overbought == 60
au_overbought == 65
pullback_ceiling(p) == IF p = "AU" THEN au_pullback_ceiling ELSE in_pullback_ceiling
overbought(p) == IF p = "AU" THEN au_overbought ELSE in_overbought

\* a MACD block that takes every bullish bar for a crossover
fresh_crossover_Always(prev_macd_hist) == TRUE

\* "if prev_macd_hist <= 0:  # Fresh crossover", inside the bullish branch
fresh_crossover(prev_macd_hist) == LE(prev_macd_hist, 0)

\* a check that keeps the entry type the RSI and MACD blocks left
detect_entry_type_Keep(entry_type, close, ema_20, ema_50, prev_ema_20, prev_ema_50, volume_ratio) ==
    entry_type

\* a fallback that looks for the moving-average crossover first
detect_entry_type_MaCrossFirst(entry_type, close, ema_20, ema_50, prev_ema_20, prev_ema_50, volume_ratio) ==
    IF entry_type # "none" THEN entry_type
    ELSE IF GT(ema_20, ema_50) /\ LE(prev_ema_20, prev_ema_50) THEN "ma_cross"
    ELSE IF GT(close * 100, ema_20 * 102) /\ GT(volume_ratio, 150) THEN "breakout"
    ELSE "trend_follow"

\* "Detect entry type if not already set": the fallback classification
detect_entry_type(entry_type, close, ema_20, ema_50, prev_ema_20, prev_ema_50, volume_ratio) ==
    IF entry_type # "none" THEN entry_type
    ELSE IF GT(close * 100, ema_20 * 102) /\ GT(volume_ratio, 150) THEN "breakout"
    ELSE IF GT(ema_20, ema_50) /\ LE(prev_ema_20, prev_ema_50) THEN "ma_cross"
    ELSE "trend_follow"

check_swing_criteria(p, historical_df, fundamentals) ==
    IF historical_df = None \/ historical_df.len = 0 \/ historical_df.len < MinBars
    THEN Returned(FALSE, 0, "", <<"Insufficient data">>, 100)
    ELSE
    LET latest == historical_df.latest
        prev == historical_df.prev
        gate == hard_gate(p, fundamentals)
        sector == fundamentals.sector
        fund == [s |-> IF p = "AU" THEN 15 ELSE 20, r |-> <<"Fundamentals">>]
        ema_20 == Get(latest, historical_df, "EMA_20", 0)
        ema_50 == Get(latest, historical_df, "EMA_50", 0)
        sma_200 == Get(latest, historical_df, "SMA_200", 0)
        close == latest["Close"]
        above_all_ma == GT(close, ema_20) /\ GT(ema_20, ema_50) /\ GT(ema_50, sma_200)
        trend == IF above_all_ma THEN [s |-> 20, r |-> <<"Above all MAs">>]
                 ELSE IF GT(close, ema_20) /\ GT(close, ema_50)
                 THEN [s |-> 15, r |-> <<"Above 20/50 EMA">>]
                 ELSE [s |-> 5, r |-> <<"Not in clear uptrend">>]
        rsi == Get(latest, historical_df, "RSI", 50)
        rsic == IF LE(rsi_min(p), rsi) /\ LE(rsi, rsi_max(p))
                THEN [s |-> 20, r |-> <<"RSI ideal range">>, e |-> "none"]
                ELSE IF LT(pullback_floor, rsi) /\ LT(rsi, pullback_ceiling(p))
                THEN [s |-> 15, r |-> <<"RSI pullback zone">>, e |-> "pullback"]
                ELSE IF GT(rsi, overbought(p))
                THEN [s |-> 5, r |-> <<"RSI approaching overbought">>, e |-> "none"]
                ELSE [s |-> 0, r |-> <<"RSI">>, e |-> "none"]
        week_52_high_prox == Get(latest, historical_df, "52W_High_Proximity", 0)
        w52 == IF p # "AU" THEN [s |-> 0, r |-> <<>>]
               ELSE IF LE(au_min_52w_high_proximity, week_52_high_prox)
                       /\ LE(week_52_high_prox, au_max_52w_high_proximity)
               THEN [s |-> 15, r |-> <<"Near 52W high">>]
               ELSE IF GT(week_52_high_prox, au_max_52w_high_proximity)
               THEN [s |-> 8, r |-> <<"At 52W high">>]
               ELSE [s |-> 5, r |-> <<"52W high prox">>]
        macd == Get(latest, historical_df, "MACD", 0)
        macd_signal == Get(latest, historical_df, "MACD_Signal", 0)
        macd_hist == Get(latest, historical_df, "MACD_Hist", 0)
        prev_macd_hist == Get(prev, historical_df, "MACD_Hist", 0)
        macdc == IF GT(macd, macd_signal) /\ GT(macd_hist, 0)
                 THEN [s |-> 15, r |-> <<"MACD bullish">>,
                       e |-> IF fresh_crossover(prev_macd_hist) THEN "macd_cross"
                             ELSE rsic.e]
                 ELSE IF GT(macd, macd_signal)
                 THEN [s |-> 10, r |-> <<"MACD neutral">>, e |-> rsic.e]
                 ELSE [s |-> 0, r |-> <<>>, e |-> rsic.e]
        volume_ratio == Get(latest, historical_df, "Volume_Ratio", 100)
        vol == IF GE(volume_ratio,
                     IF p = "AU" THEN au_min_volume_ratio ELSE in_min_volume_multiplier)
               THEN [s |-> IF p = "AU" THEN 10 ELSE 15, r |-> <<"Volume x average">>]
               ELSE [s |-> 5, r |-> <<"Volume x">>]
        sector_weight == IF p = "AU" THEN sector_weights(sector) ELSE 100
        sec == IF p = "AU"
               THEN [s |-> 0, r |-> IF sector_weight > 100
                                    THEN <<"Sector (weight)">> ELSE <<"Sector">>]
               ELSE IF sector \in SWING_PREFERRED_SECTORS
               THEN [s |-> 10, r |-> <<"Preferred sector">>]
               ELSE [s |-> 5, r |-> <<"Sector">>]
        entry_type ==
            detect_entry_type(macdc.e, close, ema_20, ema_50,
                              Get(prev, historical_df, "EMA_20", 0),
                              Get(prev, historical_df, "EMA_50", 0), volume_ratio)
        score == fund.s + trend.s + rsic.s + w52.s + macdc.s + vol.s + sec.s
        weighted_score == score * sector_weight
        \* India: fund, trend, RSI, MACD, volume, sector.
        \* Australia: fund, trend, RSI, 52W, MACD, volume, sector.
        reasons == fund.r \o trend.r \o rsic.r \o w52.r \o macdc.r \o vol.r \o sec.r
    IN  IF gate # "" THEN Returned(FALSE, 0, "", <<gate>>, 100)
        ELSE IF "Close" \notin historical_df.columns THEN Raised
        ELSE Returned(swing_pass(p, score, weighted_score), weighted_score,
                      entry_type, reasons, sector_weight)

\* the score of a passing evaluation before the sector weight was applied
Unweighted(r) == (r.score \div r.sector_weight)

(***************************************************************************)
(* Targets.  round(x, 2) of a value given as the fraction n / d of a cent. *)
(***************************************************************************)
Round2(n, d) ==
    LET q == n \div d
        r == n % d
    IN  IF 2 * r < d THEN q
        ELSE IF 2 * r > d THEN q + 1
        ELSE IF q % 2 = 0 THEN q ELSE q + 1

KnownEntryTypes == {"pullback", "breakout", "macd_cross", "ma_cross", "trend_follow"}

\* Multipliers in percent: [target, stop].
in_breakout == [target |-> 112, stop |-> 95]
in_pullback == [target |-> 110, stop |-> 93]
in_other == [target |-> 112, stop |-> 94]
au_breakout == [target |-> 115, stop |-> 95]
au_pullback == [target |-> 112, stop |-> 93]
au_other == [target |-> 115, stop |-> 94]

\* one multiplier pair for every entry type
calculate_targets_DefaultPair(p, current_price, entry_type) ==
    LET m == IF p = "AU" THEN au_other ELSE in_other
    IN  [raised |-> FALSE,
         target |-> Round2(current_price * m.target, 1000),
         stop_loss |-> Round2(current_price * m.stop, 1000)]

\* current_price in thousandths; target and stop_loss in cents.
calculate_targets(p, current_price, entry_type) ==
    LET m == IF entry_type = "breakout"
             THEN (IF p = "AU" THEN au_breakout ELSE in_breakout)
             ELSE IF entry_type = "pullback"
             THEN (IF p = "AU" THEN au_pullback ELSE in_pullback)
             ELSE (IF p = "AU" THEN au_other ELSE in_other)
    IN  [raised |-> FALSE,
         target |-> Round2(current_price * m.target, 1000),
         stop_loss |-> Round2(current_price * m.stop, 1000)]

(***************************************************************************)
(* Symbol lists and the dicts the collaborator returns.                    *)
(***************************************************************************)
MaxLen == 2
MaxResultsArg == 1

Symbols == {"A", "B"}

SymbolLists == UNION {[1..n -> Symbols] : n \in 0..MaxLen}

\* max_results: None (the policy default applies) or an int
MaxResultsArgs ==
    {[given |-> FALSE, v |-> 0]} \cup [given : {TRUE}, v : 0..MaxResultsArg]

Range(s) == {s[k] : k \in 1..Len(s)}

\* The keys of a dict filled by "for symbol in symbols: results[symbol] = ...":
\* insertion order, every key once.
\* a dict that keeps one key per occurrence in the list
Keys_PerOccurrence(order, seen) == order

\* the keys of a dict filled in the order of the list: "results[symbol] =
\* ..." inserts a key at its first occurrence and overwrites it afterwards
RECURSIVE Keys(_, _)
Keys(order, seen) ==
    IF order = <<>> THEN <<>>
    ELSE IF Head(order) \in seen THEN Keys(Tail(order), seen)
    ELSE <<Head(order)>> \o Keys(Tail(order), seen \cup {Head(order)})

DictKeys(d, order) == SelectSeq(Keys(order, {}), LAMBDA s : d[s] # None)

EmptyDict == [s \in Symbols |-> None]

\* What the collaborator can return for one symbol.
PLACEHOLDER == [market_cap |-> 0, debt_to_equity |-> 0, roe |-> 0, sector |-> "Unknown"]

\* the yfinance lookup of one symbol raised
LookupFailed == [failed |-> TRUE]

\* a fetch that leaves out the symbols whose lookup raised
RECURSIVE batch_fetch_fundamentals_SkipFailed(_, _, _)
batch_fetch_fundamentals_SkipFailed(batch, info, results) ==
    IF batch = <<>> THEN results
    ELSE batch_fetch_fundamentals_SkipFailed(
             Tail(batch), info,
             IF info[Head(batch)] = LookupFailed THEN results
             ELSE [results EXCEPT ![Head(batch)] = info[Head(batch)]])

\* batch_fetch_fundamentals: "for symbol in batch: try: results[symbol] =
\* {...} except Exception: results[symbol] = {placeholder}".  info maps a
\* symbol to what its lookup yields; results is the dict built so far.
RECURSIVE batch_fetch_fundamentals(_, _, _)
batch_fetch_fundamentals(batch, info, results) ==
    IF batch = <<>> THEN results
    ELSE batch_fetch_fundamentals(
             Tail(batch), info,
             [results EXCEPT ![Head(batch)] =
                 IF info[Head(batch)] = LookupFailed THEN PLACEHOLDER
                 ELSE info[Head(batch)]])

(***************************************************************************)
(* Direct calls of the criteria checks and of calculate_targets: the       *)
(* arguments are drawn from the sets below, the action applies the         *)
(* function.                                                               *)
(***************************************************************************)
UnitBars(p) ==
    [close : {10000},
     ema_20 : {9500, 9804, 9900, 10500},
     ema_50 : {9000, 10200},
     sma_200 : {8000},
     rsi : {NaN, 25, 32, 50, 70},
     macd : {-5, 5},
     macd_signal : {0},
     prev_macd_hist : {-1, 1},
     volume_ratio : {NaN, 100, 130, 150, 160},
     prev_ema_20 : {9000},
     prev_ema_50 : {8900, 9000, 9100},
     w52_high_proximity : IF p = "AU" THEN {80, 90, 99} ELSE {0}]

OneBars ==
    [close |-> 10000, ema_20 |-> 9500, ema_50 |-> 9000, sma_200 |-> 8000, rsi |-> 50,
     macd |-> 5, macd_signal |-> 0, prev_macd_hist |-> -1, volume_ratio |-> 160,
     prev_ema_20 |-> 9000, prev_ema_50 |-> 9100, w52_high_proximity |-> 90]

UnitSwingSeries(p) ==
    [len : {60, 250}, columns : {{"Close", "Volume"}}, bars : UnitBars(p)]
    \cup [len : {30, 49, 50}, columns : {{"Close", "Volume"}, {"Close"}, {"Volume"}},
          bars : {OneBars}]

UnitSwingFundamentals(p) ==
    [market_cap : {0, 60000}, debt_to_equity : {50, 120}, roe : {5, 15},
     sector : IF p = "AU" THEN {"Unknown", "Materials", "Information Technology"}
              ELSE {"Unknown", "DEFENCE"}]

UnitBtstSeries ==
    [len : {10, 30}, columns : {{"Close", "Volume"}, {"Close"}, {"Volume"}},
     bars : {[OneBars EXCEPT !.ema_20 = e, !.volume_ratio = v] :
                e \in {9500, 10500}, v \in {NaN, 100, 150, 160}}]

UnitSnapshots ==
    [day_change_pct : {NaN, 100, 199, 200, 250, 350, 351, 400},
     high_proximity_pct : {0, 7999, 8000, 8999, 9000, 9500}]

UnitBtstFundamentals ==
    [market_cap : {0}, debt_to_equity : {0}, roe : {0}, sector : {"Unknown", "IT", "DEFENCE"}]

UnitEntryTypes == KnownEntryTypes \cup {"", "none", "scalp"}

UnitPrices == {3, 50, 1000, 1250, 9995, 10000, 123456}

\* windows of rsi_period + 1 closes: from 100, Turn steps of a, then steps of b
UnitSteps == {-2, -1, 0, 1, 3}
UnitCloses ==
    {[k \in 1..(rsi_period + 1) |->
          IF k - 1 <= t THEN 100 + (k - 1) * a ELSE 100 + t * a + (k - 1 - t) * b] :
        t \in 0..rsi_period, a \in UnitSteps, b \in UnitSteps}

UnitInfos ==
    [Symbols -> {LookupFailed,
                 [market_cap |-> 60000, debt_to_equity |-> 10, roe |-> 20,
                  sector |-> "DEFENCE"],
                 [market_cap |-> 100, debt_to_equity |-> 120, roe |-> 5,
                  sector |-> "Unknown"]}]

\* raw frames as batch_fetch_daily_data hands them over
UnitFrames ==
    [len : {0, 30, 250}, columns : {{"Close", "Volume"}, {"Close"}, {"Volume"}},
     bars : {OneBars}]

UnitCalls ==
    [fn : {"batch_fetch_fundamentals"}, symbols : SymbolLists, info : UnitInfos] \cup
    [fn : {"calculate_technical_indicators"}, p : {"IN", "AU"}, df : UnitFrames] \cup
    [fn : {"calculate_rsi"}, closes : UnitCloses] \cup
    [fn : {"check_btst_criteria"}, current_data : UnitSnapshots,
     historical_df : UnitBtstSeries, fundamentals : UnitBtstFundamentals]
    \cup [fn : {"check_swing_criteria"}, p : {"IN"},
          historical_df : UnitSwingSeries("IN"), fundamentals : UnitSwingFundamentals("IN")]
    \cup [fn : {"check_swing_criteria"}, p : {"AU"},
          historical_df : UnitSwingSeries("AU"), fundamentals : UnitSwingFundamentals("AU")]
    \cup [fn : {"calculate_targets"}, p : {"IN", "AU"},
          current_price : UnitPrices, entry_type : UnitEntryTypes]

Indicators(p, df) ==
    IF p = "AU" THEN shared_calculate_technical_indicators(df, "australia")
    ELSE calculate_technical_indicators(df)

ScanIdle ==
    /\ policy = "BTST"
    /\ symbols = <<>>
    /\ max_results = [given |-> FALSE, v |-> 0]
    /\ pc = "idle"
    /\ current_data_dict = <<>>
    /\ fundamentals_dict = <<>>
    /\ historical_data_dict = <<>>
    /\ filtered_symbols = <<>>
    /\ i = 0
    /\ candidates = <<>>
    /\ result = <<>>
    /\ requests = <<>>

InitUnit ==
    /\ ScanIdle
    /\ call \in UnitCalls
    /\ ret = None

ApplyCheckBtst ==
    /\ ret = None
    /\ call.fn = "check_btst_criteria"
    /\ ret' = check_btst_criteria(call.current_data,
                                  calculate_technical_indicators(call.historical_df),
                                  call.fundamentals)
    /\ UNCHANGED <<scanvars, call>>

ApplyCheckSwing ==
    /\ ret = None
    /\ call.fn = "check_swing_criteria"
    /\ ret' = check_swing_criteria(call.p, Indicators(call.p, call.historical_df),
                                   call.fundamentals)
    /\ UNCHANGED <<scanvars, call>>

ApplyCalculateTargets ==
    /\ ret = None
    /\ call.fn = "calculate_targets"
    /\ ret' = calculate_targets(call.p, call.current_price, call.entry_type)
    /\ UNCHANGED <<scanvars, call>>

ApplyCalculateRsi ==
    /\ ret = None
    /\ call.fn = "calculate_rsi"
    /\ ret' = [raised |-> FALSE, rsi |-> calculate_rsi(call.closes)]
    /\ UNCHANGED <<scanvars, call>>

ApplyBatchFetchFundamentals ==
    /\ ret = None
    /\ call.fn = "batch_fetch_fundamentals"
    /\ ret' = [raised |-> FALSE,
               results |-> batch_fetch_fundamentals(call.symbols, call.info, EmptyDict)]
    /\ UNCHANGED <<scanvars, call>>

\* "df['EMA_20'] = ..." assigns the column on the frame object the caller
\* passed, and "return df" (in the try and in the except) hands that same
\* object back: after the call the caller's frame carries every column
\* assigned before the return or before the statement that raised.
\* ret.df is the returned frame, ret.input_columns the columns of the
\* caller's frame after the call.
ApplyCalculateTechnicalIndicators ==
    /\ ret = None
    /\ call.fn = "calculate_technical_indicators"
    /\ ret' = [raised |-> FALSE,
               df |-> Indicators(call.p, call.df),
               input_columns |-> Indicators(call.p, call.df).columns]
    /\ UNCHANGED <<scanvars, call>>

NextUnit ==
    \/ ApplyCalculateTechnicalIndicators
    \/ ApplyCheckBtst
    \/ ApplyCheckSwing
    \/ ApplyCalculateTargets
    \/ ApplyCalculateRsi
    \/ ApplyBatchFetchFundamentals

SpecUnit == InitUnit /\ [][NextUnit]_vars

(***************************************************************************)
(* One symbol evaluated on consecutive days.  Each day the series ends one *)
(* bar later: the latest row of one day is the previous row of the next.   *)
(* call.hists holds the MACD histogram of the bar before the first day and *)
(* of the DailyBars days; ret collects the results, one per day.           *)
(***************************************************************************)
DailyBars == 4
DailyHists == {-2, 0, 3}
DailyRsi == {32, 50}

DailyFundamentals(p) ==
    [market_cap |-> 60000, debt_to_equity |-> 10, roe |-> 20,
     sector |-> IF p = "AU" THEN "Materials" ELSE "DEFENCE"]

\* latest = historical_df.iloc[-1], prev = historical_df.iloc[-2] on day t
DailySeries(hists, rsi, t) ==
    [len |-> 60, columns |-> {"Close", "Volume"},
     bars |-> [OneBars EXCEPT !.macd = hists[t + 1], !.macd_signal = 0,
                              !.prev_macd_hist = hists[t], !.rsi = rsi]]

InitDaily ==
    /\ ScanIdle
    /\ call \in [fn : {"daily_evaluations"}, p : {"IN", "AU"},
                  hists : [1..(DailyBars + 1) -> DailyHists], rsi : DailyRsi]
    /\ ret = <<>>

EvaluateDay ==
    /\ call.fn = "daily_evaluations"
    /\ Len(ret) < DailyBars
    /\ ret' = Append(ret,
                     check_swing_criteria(
                         call.p,
                         Indicators(call.p, DailySeries(call.hists, call.rsi, Len(ret) + 1)),
                         DailyFundamentals(call.p)))
    /\ UNCHANGED <<scanvars, call>>

NextDaily == EvaluateDay

SpecDaily == InitDaily /\ [][NextDaily]_vars

(***************************************************************************)
(* main_india.main and send_completion_summary.  call holds the arguments  *)
(* and what the collaborators will do (whether the configuration           *)
(* validates, what each scan returns or that it raises); ret holds main's  *)
(* position and locals and the log of the calls main made.                 *)
(***************************************************************************)
MaxCandidates == 2

ScanOutcomes ==
    {o \in [raised : BOOLEAN, count : 0..MaxCandidates] : o.raised => o.count = 0}

MainCalls ==
    [fn : {"main"}, scan_type : {"btst", "swing", "both"}, valid : BOOLEAN,
     SEND_TELEGRAM : BOOLEAN, btst : ScanOutcomes, swing : ScanOutcomes]

\* a call main made, with main's locals at the time of the call
Event(op, m) ==
    [op |-> op, btst_count |-> m.btst_count, swing_count |-> m.swing_count,
     btst_success |-> m.btst_success, swing_success |-> m.swing_success]

InitMain ==
    /\ ScanIdle
    /\ call \in MainCalls
    /\ ret = [pc |-> "validate", btst_count |-> 0, swing_count |-> 0,
              btst_success |-> TRUE, swing_success |-> TRUE, log |-> <<>>,
              exit_code |-> 0]

MainFrame == UNCHANGED <<scanvars, call>>

\* IndiaConfig.validate() raises: the outer handler notifies and exits
ValidateRaises ==
    /\ call.fn = "main" /\ ret.pc = "validate"
    /\ ~call.valid
    /\ ret' = [ret EXCEPT !.pc = "exited", !.exit_code = 1,
                          !.log = Append(@, Event("notify_error", ret))]
    /\ MainFrame

ValidateReturns ==
    /\ call.fn = "main" /\ ret.pc = "validate"
    /\ call.valid
    /\ ret' = [ret EXCEPT !.pc = "btst"]
    /\ MainFrame

\* 'if scan_type in ["btst", "both"]' is false
SkipBtst ==
    /\ call.fn = "main" /\ ret.pc = "btst"
    /\ call.scan_type = "swing"
    /\ ret' = [ret EXCEPT !.pc = "swing"]
    /\ MainFrame

\* a BTST failure that leaves main through the outer handler
BtstRaises_Fatal ==
    /\ call.fn = "main" /\ ret.pc = "btst"
    /\ call.scan_type \in {"btst", "both"}
    /\ call.btst.raised
    /\ LET m == [ret EXCEPT !.btst_success = FALSE,
                            !.log = Append(@, Event("run_btst_scan", ret))]
       IN  ret' = [m EXCEPT !.pc = "exited", !.exit_code = 1,
                            !.log = Append(@, Event("notify_error", m))]
    /\ MainFrame

\* run_btst_scan raised: "btst_success = False; notifier.notify_error(...)"
BtstRaises ==
    /\ call.fn = "main" /\ ret.pc = "btst"
    /\ call.scan_type \in {"btst", "both"}
    /\ call.btst.raised
    /\ LET m == [ret EXCEPT !.btst_success = FALSE,
                            !.log = Append(@, Event("run_btst_scan", ret))]
       IN  ret' = [m EXCEPT !.pc = "swing",
                            !.log = Append(@, Event("notify_error", m))]
    /\ MainFrame

\* run_btst_scan returned: "btst_count = len(candidates); if candidates:
\* notifier.notify_btst_results(report, btst_count)"
BtstReturns ==
    /\ call.fn = "main" /\ ret.pc = "btst"
    /\ call.scan_type \in {"btst", "both"}
    /\ ~call.btst.raised
    /\ LET m == [ret EXCEPT !.btst_count = call.btst.count,
                            !.log = Append(@, Event("run_btst_scan", ret))]
       IN  ret' = [m EXCEPT !.pc = "swing",
                            !.log = IF call.btst.count > 0
                                    THEN Append(@, Event("notify_btst_results", m))
                                    ELSE @]
    /\ MainFrame

SkipSwing ==
    /\ call.fn = "main" /\ ret.pc = "swing"
    /\ call.scan_type = "btst"
    /\ ret' = [ret EXCEPT !.pc = "summary"]
    /\ MainFrame

SwingRaises ==
    /\ call.fn = "main" /\ ret.pc = "swing"
    /\ call.scan_type \in {"swing", "both"}
    /\ call.swing.raised
    /\ LET m == [ret EXCEPT !.swing_success = FALSE,
                            !.log = Append(@, Event("run_swing_scan", ret))]
       IN  ret' = [m EXCEPT !.pc = "summary",
                            !.log = Append(@, Event("notify_error", m))]
    /\ MainFrame

SwingReturns ==
    /\ call.fn = "main" /\ ret.pc = "swing"
    /\ call.scan_type \in {"swing", "both"}
    /\ ~call.swing.raised
    /\ LET m == [ret EXCEPT !.swing_count = call.swing.count,
                            !.log = Append(@, Event("run_swing_scan", ret))]
       IN  ret' = [m EXCEPT !.pc = "summary",
                            !.log = IF call.swing.count > 0
                                    THEN Append(@, Event("notify_swing_results", m))
                                    ELSE @]
    /\ MainFrame

\* "send_completion_summary(notifier, scan_type, btst_count, swing_count,
\* btst_success, swing_success)", which posts the summary when Telegram is
\* enabled
send_completion_summary ==
    /\ call.fn = "main" /\ ret.pc = "summary"
    /\ LET m == [ret EXCEPT !.log = Append(@, Event("send_completion_summary", ret))]
       IN  ret' = [m EXCEPT !.pc = "done",
                            !.log = IF call.SEND_TELEGRAM
                                    THEN Append(@, Event("send_telegram", m))
                                    ELSE @]
    /\ MainFrame

NextMain ==
    \/ ValidateRaises
    \/ ValidateReturns
    \/ SkipBtst
    \/ BtstRaises
    \/ BtstReturns
    \/ SkipSwing
    \/ SwingRaises
    \/ SwingReturns
    \/ send_completion_summary

SpecMain == InitMain /\ [][NextMain]_vars

(***************************************************************************)
(* Notifier.send_telegram.  A message is the sequence of its characters,   *)
(* here the character positions 1..n.  call holds the message and the      *)
(* SEND_TELEGRAM setting; ret holds the position in the method, the posts  *)
(* made so far (the text and how the post ended) and the value returned.   *)
(***************************************************************************)
max_length == 4000
MaxParts == 4

Min(a, b) == IF a < b THEN a ELSE b

TelegramLengths ==
    {0, 1} \cup {n \in {k * max_length + d : k \in 1..MaxParts, d \in {-1, 0, 1}} :
                    n <= MaxParts * max_length}

TelegramCalls ==
    [fn : {"send_telegram"}, SEND_TELEGRAM : BOOLEAN,
     message : {[k \in 1..n |-> k] : n \in TelegramLengths}]

\* a split that leaves out the last, shorter part
parts_DropTail(message) ==
    [k \in 1..(Len(message) \div max_length) |->
        SubSeq(message, (k - 1) * max_length + 1, k * max_length)]

\* "[message[i:i+max_length] for i in range(0, len(message), max_length)]"
parts(message) ==
    [k \in 1..((Len(message) + max_length - 1) \div max_length) |->
        SubSeq(message, (k - 1) * max_length + 1, Min(k * max_length, Len(message)))]

\* the texts send_telegram posts: the parts of a long message, else the message
texts(message) == IF Len(message) > max_length THEN parts(message) ELSE <<message>>

\* requests.post raised, or raise_for_status() raised on the response
PostFailures == {"post raised", "HTTP error"}

InitTelegram ==
    /\ ScanIdle
    /\ call \in TelegramCalls
    /\ ret = [pc |-> "start", posts |-> <<>>, returned |-> FALSE]

\* "if not self.config.SEND_TELEGRAM: return False"
TelegramDisabled ==
    /\ call.fn = "send_telegram" /\ ret.pc = "start"
    /\ ~call.SEND_TELEGRAM
    /\ ret' = [ret EXCEPT !.pc = "done", !.returned = FALSE]
    /\ UNCHANGED <<scanvars, call>>

Posting ==
    /\ call.fn = "send_telegram"
    /\ ret.pc = "start"
    /\ call.SEND_TELEGRAM
    /\ Len(ret.posts) < Len(texts(call.message))

PostSucceeds ==
    /\ Posting
    /\ ret' = [ret EXCEPT !.posts = Append(@, [text |-> texts(call.message)[Len(@) + 1],
                                               outcome |-> "ok"])]
    /\ UNCHANGED <<scanvars, call>>

\* the exception leaves the loop: "except Exception as e: ...; return False"
PostFails ==
    /\ Posting
    /\ \E f \in PostFailures :
          ret' = [ret EXCEPT !.posts = Append(@, [text |-> texts(call.message)[Len(@) + 1],
                                                 outcome |-> f]),
                            !.pc = "done", !.returned = FALSE]
    /\ UNCHANGED <<scanvars, call>>

\* every text was posted: "return True"
TelegramReturnsTrue ==
    /\ call.fn = "send_telegram" /\ ret.pc = "start"
    /\ call.SEND_TELEGRAM
    /\ Len(ret.posts) = Len(texts(call.message))
    /\ ret' = [ret EXCEPT !.pc = "done", !.returned = TRUE]
    /\ UNCHANGED <<scanvars, call>>

NextTelegram ==
    \/ TelegramDisabled
    \/ PostSucceeds
    \/ PostFails
    \/ TelegramReturnsTrue

SpecTelegram == InitTelegram /\ [][NextTelegram]_vars

(***************************************************************************)
(* The scans: scan_for_btst and the two scan_for_swing.                    *)
(***************************************************************************)

ScanSnapshots ==
    {[current_price |-> 10000, day_change_pct |-> 150, high_proximity_pct |-> 9500],
     [current_price |-> 10000, day_change_pct |-> 250, high_proximity_pct |-> 9500],
     [current_price |-> 2000, day_change_pct |-> 400, high_proximity_pct |-> 8500]}

ScanFundamentals(p) ==
    CASE p = "BTST" ->
            {[market_cap |-> 60000, debt_to_equity |-> 10, roe |-> 20, sector |-> "IT"],
             [market_cap |-> 60000, debt_to_equity |-> 10, roe |-> 20, sector |-> "DEFENCE"]}
      [] p = "IN" ->
            {[market_cap |-> 60000, debt_to_equity |-> 120, roe |-> 20, sector |-> "DEFENCE"],
             [market_cap |-> 60000, debt_to_equity |-> 10, roe |-> 5, sector |-> "DEFENCE"],
             [market_cap |-> 60000, debt_to_equity |-> 10, roe |-> 20, sector |-> "DEFENCE"],
             [market_cap |-> 60000, debt_to_equity |-> 10, roe |-> 20, sector |-> "Unknown"]}
      [] OTHER ->
            {[market_cap |-> 60000, debt_to_equity |-> 120, roe |-> 20, sector |-> "Materials"],
             [market_cap |-> 60000, debt_to_equity |-> 10, roe |-> 5, sector |-> "Materials"],
             [market_cap |-> 60000, debt_to_equity |-> 10, roe |-> 20, sector |-> "Materials"],
             [market_cap |-> 60000, debt_to_equity |-> 10, roe |-> 20,
              sector |-> "Information Technology"]}

StrongBars == OneBars
MediumBars ==
    [OneBars EXCEPT !.macd = -5, !.volume_ratio = 100, !.w52_high_proximity = 80]
WeakBars == [OneBars EXCEPT !.rsi = 70, !.macd = -5, !.volume_ratio = 100]
BelowEmaBars == [OneBars EXCEPT !.ema_20 = 10500, !.volume_ratio = 100]
\* RSI in the pullback band, MACD bullish for more than one bar, a close with
\* a fraction of a cent
PullbackBars == [OneBars EXCEPT !.rsi = 32, !.prev_macd_hist = 1, !.close = 10014]
\* no fresh MACD crossover, close more than 2% above EMA_20 on high volume
BreakoutBars == [OneBars EXCEPT !.prev_macd_hist = 1, !.close = 10014]

\* a strong series that trades at three cents
PennyBars ==
    [OneBars EXCEPT !.close = 30, !.ema_20 = 28, !.ema_50 = 26, !.sma_200 = 20,
                    !.prev_ema_20 = 26, !.prev_ema_50 = 27]

\* yfinance returns at most one bar per calendar day of the lookback
ScanSeries(p) ==
    {s \in [len : {30, 60, 250}, columns : {{"Close", "Volume"}},
            bars : {StrongBars, MediumBars, WeakBars, PullbackBars, BreakoutBars,
                    BelowEmaBars, PennyBars}]
           \cup [len : {30, 60}, columns : {{"Close"}, {"Volume"}}, bars : {StrongBars}] :
        /\ s.len <= lookback_days(p)
        /\ (p = "BTST" => s.len <= 30 /\ s.bars \in {StrongBars, BelowEmaBars})
        /\ (p # "BTST" => s.bars # BelowEmaBars)
        /\ (s.bars = PennyBars => s.len = 60)
        /\ (p # "BTST" /\ s.len = 30 => s.bars = StrongBars)}

\* a dict over the requested symbols: each has a value of vals or is missing
Dicts(syms, vals) ==
    {d \in [Symbols -> vals \cup {None}] : \A s \in Symbols \ syms : d[s] = None}

\* batch_fetch_fundamentals: an entry for every requested symbol, the
\* placeholder where the lookup failed
FundamentalsDicts(syms, vals) ==
    {d \in Dicts(syms, vals \cup {PLACEHOLDER}) : \A s \in syms : d[s] # None}

Init ==
    /\ policy \in Policies
    /\ symbols \in SymbolLists
    /\ max_results \in MaxResultsArgs
    /\ pc = "start"
    /\ current_data_dict = EmptyDict
    /\ fundamentals_dict = EmptyDict
    /\ historical_data_dict = EmptyDict
    /\ filtered_symbols = <<>>
    /\ i = 0
    /\ candidates = <<>>
    /\ result = <<>>
    /\ requests = <<>>
    /\ call = None
    /\ ret = None

Request(kind, syms) == [kind |-> kind, symbols |-> syms]

\* Step 1 of scan_for_btst: batch_fetch_current_data(symbols)
FetchCurrentData ==
    /\ pc = "start"
    /\ policy = "BTST"
    /\ current_data_dict' \in Dicts(Range(symbols), ScanSnapshots)
    /\ requests' = Append(requests, Request("current", symbols))
    /\ pc' = "prefilter"
    /\ UNCHANGED <<policy, symbols, max_results, fundamentals_dict, historical_data_dict,
                   filtered_symbols, i, candidates, result, call, ret>>

\* Step 1 of scan_for_swing: batch_fetch_fundamentals(symbols)
FetchAllFundamentals ==
    /\ pc = "start"
    /\ policy \in {"IN", "AU"}
    /\ fundamentals_dict' \in FundamentalsDicts(Range(symbols), ScanFundamentals(policy))
    /\ requests' = Append(requests, Request("fundamentals", symbols))
    /\ pc' = "prefilter"
    /\ UNCHANGED <<policy, symbols, max_results, current_data_dict, historical_data_dict,
                   filtered_symbols, i, candidates, result, call, ret>>

\* a pre-filter that asks for more gain than the criteria check
btst_prefilter_Stricter(data) == GE(data.day_change_pct, max_gain_percent)

btst_prefilter(data) == GE(data.day_change_pct, min_gain_percent)

swing_prefilter(p, fundamentals) ==
    /\ fundamentals.market_cap >= min_market_cap(p)
    /\ fundamentals.debt_to_equity <= max_debt_to_equity(p)

\* Step 2: the pre-filter over the dict of step 1
Prefilter ==
    /\ pc = "prefilter"
    /\ filtered_symbols' =
          IF policy = "BTST"
          THEN SelectSeq(DictKeys(current_data_dict, symbols),
                         LAMBDA s : btst_prefilter(current_data_dict[s]))
          ELSE SelectSeq(DictKeys(fundamentals_dict, symbols),
                         LAMBDA s : swing_prefilter(policy, fundamentals_dict[s]))
    /\ pc' = "filtered"
    /\ UNCHANGED <<policy, symbols, max_results, current_data_dict, fundamentals_dict,
                   historical_data_dict, i, candidates, result, requests, call, ret>>

\* "if not filtered_symbols: return []"
ReturnEmpty ==
    /\ pc = "filtered"
    /\ filtered_symbols = <<>>
    /\ result' = <<>>
    /\ pc' = "done"
    /\ UNCHANGED <<policy, symbols, max_results, current_data_dict, fundamentals_dict,
                   historical_data_dict, filtered_symbols, i, candidates, requests,
                   call, ret>>

\* Steps 3 and 4 of scan_for_btst: historical data, then fundamentals, for
\* the filtered symbols
FetchBtstEnrichment ==
    /\ pc = "filtered"
    /\ filtered_symbols # <<>>
    /\ policy = "BTST"
    /\ historical_data_dict' \in Dicts(Range(filtered_symbols), ScanSeries(policy))
    /\ fundamentals_dict' \in
          FundamentalsDicts(Range(filtered_symbols), ScanFundamentals(policy))
    /\ requests' = requests \o <<Request("historical", filtered_symbols),
                                 Request("fundamentals", filtered_symbols)>>
    /\ i' = 1
    /\ pc' = "analyze"
    /\ UNCHANGED <<policy, symbols, max_results, current_data_dict, filtered_symbols,
                   candidates, result, call, ret>>

\* a swing scan that requests the historical data of every input symbol
FetchSwingHistorical_AllSymbols ==
    /\ pc = "filtered"
    /\ filtered_symbols # <<>>
    /\ policy \in {"IN", "AU"}
    /\ historical_data_dict' \in Dicts(Range(filtered_symbols), ScanSeries(policy))
    /\ requests' = Append(requests, Request("historical", symbols))
    /\ i' = 1
    /\ pc' = "analyze"
    /\ UNCHANGED <<policy, symbols, max_results, current_data_dict, fundamentals_dict,
                   filtered_symbols, candidates, result, call, ret>>

\* Step 3 of scan_for_swing: historical data for the filtered symbols
FetchSwingHistorical ==
    /\ pc = "filtered"
    /\ filtered_symbols # <<>>
    /\ policy \in {"IN", "AU"}
    /\ historical_data_dict' \in Dicts(Range(filtered_symbols), ScanSeries(policy))
    /\ requests' = Append(requests, Request("historical", filtered_symbols))
    /\ i' = 1
    /\ pc' = "analyze"
    /\ UNCHANGED <<policy, symbols, max_results, current_data_dict, fundamentals_dict,
                   filtered_symbols, candidates, result, call, ret>>

\* The body of the analysis loop for one symbol.
BtstDefault == [sector |-> "Unknown"]

\* "if current_data is None or historical_df is None: continue", and its
\* swing counterpart "if historical_df is None or fundamentals is None"
MissingData(p, s) ==
    IF p = "BTST"
    THEN current_data_dict[s] = None \/ historical_data_dict[s] = None
    ELSE historical_data_dict[s] = None \/ fundamentals_dict[s] = None

Evaluate(p, s) ==
    IF p = "BTST"
    THEN check_btst_criteria(
             current_data_dict[s],
             calculate_technical_indicators(historical_data_dict[s]),
             IF fundamentals_dict[s] = None THEN BtstDefault ELSE fundamentals_dict[s])
    ELSE check_swing_criteria(p, Indicators(p, historical_data_dict[s]),
                              fundamentals_dict[s])

BTSTCandidate(s, r) ==
    LET df == calculate_technical_indicators(historical_data_dict[s])
        f == IF fundamentals_dict[s] = None THEN BtstDefault ELSE fundamentals_dict[s]
    IN  [symbol |-> s,
         current_price |-> current_data_dict[s].current_price,
         day_change_pct |-> current_data_dict[s].day_change_pct,
         volume_ratio |-> IF df.len > 0 THEN Get(df.latest, df, "Volume_Ratio", 100) ELSE 100,
         high_proximity_pct |-> current_data_dict[s].high_proximity_pct,
         sector |-> f.sector,
         score |-> r.score,
         reason |-> r.reason]

SwingCandidate(p, s, r) ==
    LET df == Indicators(p, historical_data_dict[s])
        current_price == df.latest["Close"]
        t == calculate_targets(p, current_price, r.entry_type)
    IN  [symbol |-> s,
         current_price |-> Round2(current_price, 10),
         sector |-> fundamentals_dict[s].sector,
         score |-> r.score,
         sector_weight |-> r.sector_weight,
         entry_type |-> r.entry_type,
         target |-> t.target,
         stop_loss |-> t.stop_loss,
         reason |-> r.reason]

Candidate(p, s, r) == IF p = "BTST" THEN BTSTCandidate(s, r) ELSE SwingCandidate(p, s, r)

InLoop == pc = "analyze" /\ i <= Len(filtered_symbols)

LoopFrame ==
    UNCHANGED <<policy, symbols, max_results, pc, current_data_dict, fundamentals_dict,
                filtered_symbols, result, requests, call, ret>>

\* "historical_df = self.fetcher.calculate_technical_indicators(historical_df)":
\* the frame held by historical_data_dict is the object the columns are
\* assigned on.
IndicatorsInPlace(s) ==
    historical_data_dict' =
        [historical_data_dict EXCEPT
            ![s] = [@ EXCEPT !.columns = Indicators(policy, historical_data_dict[s]).columns]]

AnalyzeSkip ==
    /\ InLoop
    /\ MissingData(policy, filtered_symbols[i])
    /\ i' = i + 1
    /\ UNCHANGED <<candidates, historical_data_dict>>
    /\ LoopFrame

\* "except Exception as e: logger.error(...); continue"
AnalyzeRaise ==
    /\ InLoop
    /\ ~MissingData(policy, filtered_symbols[i])
    /\ Evaluate(policy, filtered_symbols[i]).raised
    /\ i' = i + 1
    /\ IndicatorsInPlace(filtered_symbols[i])
    /\ UNCHANGED candidates
    /\ LoopFrame

AnalyzeReject ==
    /\ InLoop
    /\ ~MissingData(policy, filtered_symbols[i])
    /\ ~Evaluate(policy, filtered_symbols[i]).raised
    /\ ~Evaluate(policy, filtered_symbols[i]).passes
    /\ i' = i + 1
    /\ IndicatorsInPlace(filtered_symbols[i])
    /\ UNCHANGED candidates
    /\ LoopFrame

AnalyzeAppend ==
    /\ InLoop
    /\ ~MissingData(policy, filtered_symbols[i])
    /\ ~Evaluate(policy, filtered_symbols[i]).raised
    /\ Evaluate(policy, filtered_symbols[i]).passes
    /\ candidates' = Append(candidates,
                            Candidate(policy, filtered_symbols[i],
                                      Evaluate(policy, filtered_symbols[i])))
    /\ i' = i + 1
    /\ IndicatorsInPlace(filtered_symbols[i])
    /\ LoopFrame

\* a scan that returns the candidates in analysis order
SortByScore_Unsorted(cs) == cs

\* a sort that puts a candidate behind the later candidates of equal score
RECURSIVE InsertByScore_TiesLast(_, _)
InsertByScore_TiesLast(c, sorted) ==
    IF sorted = <<>> THEN <<c>>
    ELSE IF c.score > Head(sorted).score THEN <<c>> \o sorted
    ELSE <<Head(sorted)>> \o InsertByScore_TiesLast(c, Tail(sorted))

\* candidates.sort(key=lambda x: x.score, reverse=True): a stable sort, the
\* candidates of equal score keep the order they were appended in.  c was
\* appended before every element of sorted.
RECURSIVE InsertByScore(_, _)
InsertByScore(c, sorted) ==
    IF sorted = <<>> THEN <<c>>
    ELSE IF c.score >= Head(sorted).score THEN <<c>> \o sorted
    ELSE <<Head(sorted)>> \o InsertByScore(c, Tail(sorted))

RECURSIVE SortByScore(_)
SortByScore(cs) ==
    IF cs = <<>> THEN <<>>
    ELSE InsertByScore(Head(cs), SortByScore(Tail(cs)))

\* the slice seq[:m] of Python
Slice(seq, m) ==
    IF m >= 0 THEN SubSeq(seq, 1, IF m < Len(seq) THEN m ELSE Len(seq))
    ELSE SubSeq(seq, 1, IF Len(seq) + m > 0 THEN Len(seq) + m ELSE 0)

\* "if max_results is None: max_results = self.criteria.max_results"
EffectiveMaxResults ==
    IF max_results.given THEN max_results.v ELSE default_max_results(policy)

SortAndReturn ==
    /\ pc = "analyze"
    /\ i > Len(filtered_symbols)
    /\ candidates' = SortByScore(candidates)
    /\ result' = Slice(SortByScore(candidates), EffectiveMaxResults)
    /\ pc' = "done"
    /\ UNCHANGED <<policy, symbols, max_results, current_data_dict, fundamentals_dict,
                   historical_data_dict, filtered_symbols, i, requests, call, ret>>

Next ==
    \/ FetchCurrentData
    \/ FetchAllFundamentals
    \/ Prefilter
    \/ ReturnEmpty
    \/ FetchBtstEnrichment
    \/ FetchSwingHistorical
    \/ AnalyzeSkip
    \/ AnalyzeRaise
    \/ AnalyzeReject
    \/ AnalyzeAppend
    \/ SortAndReturn

Spec == Init /\ [][Next]_vars

(***************************************************************************)
(* Properties                                                              *)
(***************************************************************************)
Done == pc = "done"
Swing == policy \in {"IN", "AU"}
SymbolsOf(cs) == {cs[k].symbol : k \in 1..Len(cs)}

\* The hard fundamental gates as the policy states them.
GatesPassed(p, f) ==
    /\ f.market_cap >= min_market_cap(p)
    /\ f.debt_to_equity <= max_debt_to_equity(p)
    /\ f.roe >= min_roe(p)

FirstFailingMetric(p, f) ==
    IF f.market_cap < min_market_cap(p) THEN "Market cap too small"
    ELSE IF f.debt_to_equity > max_debt_to_equity(p) THEN "High debt"
    ELSE "Low ROE"

\* the sector weight of a stored candidate, in hundredths (1.0 outside Australia)
WeightOf(c) == IF policy = "AU" THEN c.sector_weight ELSE 100

\* C1: the list a scan returns is at most max_results long (the argument,
\* or the policy default when none is given) and its scores never increase
\* from one position to the next.
C1_RankedOutputBounded ==
    Done =>
        /\ Len(result) <= EffectiveMaxResults
        /\ \A k \in 1..(Len(result) - 1) : result[k].score >= result[k + 1].score

\* C1 witness: two candidates were built, the one analysed second has the
\* higher score, and max_results = 1 kept only that one.
C1_Witness ==
    /\ Done
    /\ Len(candidates) = 2
    /\ Len(result) = 1
    /\ EffectiveMaxResults = 1
    /\ Len(filtered_symbols) = 2
    /\ result[1].symbol = filtered_symbols[2]
    /\ candidates[1].score > candidates[2].score

\* C2 as stated: the score stored on every returned candidate is at least
\* the policy's minimum threshold (60 BTST, 65 India swing, 60 Australia).
C2_StoredScoreAtLeastMinimum ==
    Done => \A k \in 1..Len(result) : result[k].score >= min_score(policy) * 100

\* C2 amended: the score of every returned candidate before the sector
\* weight is at least the policy's minimum; the stored Australian score is
\* that score times the sector weight, so it is at least 60 x weight.
C2_UnweightedScoreAtLeastMinimum ==
    Done => \A k \in 1..Len(result) :
                result[k].score >= min_score(policy) * WeightOf(result[k])

\* C2 witness: an Australian candidate is returned with a stored score below 60.
C2_Witness ==
    /\ Done
    /\ policy = "AU"
    /\ \E k \in 1..Len(result) :
          /\ result[k].score < au_min_score * 100
          /\ result[k].sector_weight < 100

\* C3: Australia's check_swing_criteria passes exactly when no hard gate
\* rejected and the score before the sector weight is >= 60.
C3_PassOnUnweightedScore ==
    (ret # None /\ call.fn = "check_swing_criteria" /\ call.p = "AU" /\ ~ret.raised) =>
        (ret.passes <=>
            /\ call.historical_df.len >= MinBars
            /\ GatesPassed("AU", call.fundamentals)
            /\ ret.score >= au_min_score * ret.sector_weight)

\* C3 witness: the sector weight lifts the weighted score to 60 or more, the
\* unweighted score is below 60, and the symbol did not pass.
C3_Witness ==
    /\ ret # None
    /\ call.fn = "check_swing_criteria"
    /\ call.p = "AU"
    /\ ~ret.raised
    /\ GatesPassed("AU", call.fundamentals)
    /\ call.historical_df.len >= MinBars
    /\ ret.sector_weight > 100
    /\ ret.score >= au_min_score * 100
    /\ ret.score < au_min_score * ret.sector_weight
    /\ ~ret.passes

\* a swing symbol whose evaluation completed, passed all hard gates and
\* reached the minimum score
Qualifies(s) ==
    /\ fundamentals_dict[s] # None
    /\ historical_data_dict[s] # None
    /\ GatesPassed(policy, fundamentals_dict[s])
    /\ historical_data_dict[s].len >= MinBars
    /\ ~Evaluate(policy, s).raised
    /\ Evaluate(policy, s).score >= min_score(policy) * Evaluate(policy, s).sector_weight

\* C4 as stated: in a swing scan a symbol has a candidate in the returned
\* list iff it passed all hard gates and reached the minimum score.
C4_ReturnedIffQualifies ==
    (Done /\ Swing) =>
        \A s \in Range(symbols) : (s \in SymbolsOf(result)) <=> Qualifies(s)

\* C4 amended: every returned candidate belongs to a symbol that passed all
\* hard gates and reached the minimum score; such a symbol is missing from
\* the returned list only when the list already holds max_results
\* candidates, none of them with a lower score.
C4_ReturnedOnlyIfQualifies ==
    (Done /\ Swing) =>
        \A s \in Range(symbols) :
            /\ (s \in SymbolsOf(result)) => Qualifies(s)
            /\ (Qualifies(s) /\ s \notin SymbolsOf(result)) =>
                  /\ Len(result) = EffectiveMaxResults
                  /\ \A k \in 1..Len(result) :
                        result[k].score >= Evaluate(policy, s).score

\* C4 witness: a symbol that qualifies was cut by max_results while another
\* candidate was returned.
C4_Witness ==
    /\ Done
    /\ Swing
    /\ Len(result) = 1
    /\ \E s \in Range(symbols) : Qualifies(s) /\ s \notin SymbolsOf(result)

\* C5: on a series of at least 50 bars both swing checks reject with score
\* 0 when a hard gate fails, whatever the indicators are; the reason is the
\* first failing metric in the order market cap, debt/equity, ROE, and
\* nothing else is reported.
C5_HardGateShortCircuits ==
    (/\ ret # None
     /\ call.fn = "check_swing_criteria"
     /\ call.historical_df.len >= MinBars
     /\ ~GatesPassed(call.p, call.fundamentals)) =>
        /\ ~ret.raised
        /\ ~ret.passes
        /\ ret.score = 0
        /\ ret.entry_type = ""
        /\ ret.reason = <<FirstFailingMetric(call.p, call.fundamentals)>>

\* C5 witness: all three gates fail on a series whose indicators would earn
\* full marks; the check has returned.
C5_Witness ==
    /\ ret # None
    /\ call.fn = "check_swing_criteria"
    /\ call.historical_df.len >= MinBars
    /\ call.historical_df.bars.rsi = 50
    /\ call.historical_df.bars.macd > 0
    /\ call.fundamentals.market_cap < min_market_cap(call.p)
    /\ call.fundamentals.debt_to_equity > max_debt_to_equity(call.p)
    /\ call.fundamentals.roe < min_roe(call.p)
    /\ ret.reason = <<"Market cap too small">>

\* C6 as stated: whenever the latest RSI lies strictly between 30 and the
\* lower bound of the ideal band, the entry type a swing check returns is
\* pullback, also when the same bar shows a fresh MACD bullish crossover.
C6_PullbackWinsOverMacdCross ==
    (/\ ret # None
     /\ call.fn = "check_swing_criteria"
     /\ call.historical_df.len >= MinBars
     /\ "Close" \in call.historical_df.columns
     /\ GatesPassed(call.p, call.fundamentals)
     /\ LT(pullback_floor, call.historical_df.bars.rsi)
     /\ LT(call.historical_df.bars.rsi, rsi_min(call.p))) =>
        ret.entry_type = "pullback"

\* C7 as stated: calculate_targets raises for every entry_type outside
\* pullback, breakout, macd_cross, ma_cross, trend_follow.
C7_UnknownEntryTypeRaises ==
    (/\ ret # None
     /\ call.fn = "calculate_targets"
     /\ call.entry_type \notin KnownEntryTypes) =>
        ret.raised

\* C8 as stated: a symbol whose indicator computation raised is absent from
\* the returned list.
C8_FaultySymbolAbsent ==
    Done => \A s \in Range(filtered_symbols) :
                IndicatorsRaised(historical_data_dict[s]) => s \notin SymbolsOf(result)

EnrichmentKinds == {"historical", "fundamentals"}
BeforePrefilterRan == pc \in {"start", "prefilter"}
RequestsOf(kinds) == SelectSeq(requests, LAMBDA r : r.kind \in kinds)

NoFundamentals(s) == fundamentals_dict[s] = None \/ fundamentals_dict[s] = PLACEHOLDER

\* C10 as stated: a pre-filter survivor without a historical series or
\* without fundamentals never appears in the returned list.
C10_SurvivorWithoutDataDropped ==
    Done => \A s \in Range(filtered_symbols) :
                (historical_data_dict[s] = None \/ NoFundamentals(s)) =>
                    s \notin SymbolsOf(result)

\* the shortest series on which every indicator a policy's check reads has a
\* full window: the 50 bars the swing checks ask for, the 20 bars of the
\* volume average for the BTST check
MinimumWindow(c) == IF c.fn = "check_btst_criteria" THEN volume_lookback ELSE MinBars

\* C11 as stated: for every policy a series shorter than the policy's
\* minimum window is rejected with passed=false, score 0 and the reason
\* "Insufficient data", without raising, whatever the fundamentals are
\* (a BTST input that the day-gain gate rejects first is left aside).
C11_ShortSeriesRejected ==
    (/\ ret # None
     /\ call.fn \in {"check_btst_criteria", "check_swing_criteria"}
     /\ call.fn = "check_btst_criteria" =>
            GE(call.current_data.day_change_pct, min_gain_percent)
     /\ call.historical_df.len < MinimumWindow(call)) =>
        /\ ~ret.raised
        /\ ~ret.passes
        /\ ret.score = 0
        /\ ret.reason = <<"Insufficient data">>

\* the position of a symbol's first occurrence in the list given to the scan
FirstIndex(s) == CHOOSE k \in 1..Len(symbols) :
                    symbols[k] = s /\ \A j \in 1..(k - 1) : symbols[j] # s

\* a ranks before b: higher score, or equal score and earlier in the list
RanksBefore(a, b) ==
    \/ a.score > b.score
    \/ a.score = b.score /\ FirstIndex(a.symbol) < FirstIndex(b.symbol)

\* C12: candidates of equal score are returned in the order of their
\* symbols in the list given to the scan, and truncation to max_results
\* drops only candidates that rank behind every returned one.
C12_StableOrderAndTailTruncation ==
    Done =>
        /\ \A j, k \in 1..Len(result) : j < k => RanksBefore(result[j], result[k])
        /\ \A c \in Range(candidates) \ Range(result) :
              \A k \in 1..Len(result) : RanksBefore(result[k], c)

\* C12 witness: the list was <<"B", "A">>, both symbols became candidates
\* with the same score, and max_results = 1 kept B.
C12_Witness ==
    /\ Done
    /\ symbols = <<"B", "A">>
    /\ Len(candidates) = 2
    /\ candidates[1].score = candidates[2].score
    /\ EffectiveMaxResults = 1
    /\ result = <<candidates[1]>>
    /\ result[1].symbol = "B"

\* the reason tags of the branches a defined value takes when it fails the
\* full-marks condition
FailedOrWeakTags == {"Volume below 1.5x", "Above 20/50 EMA", "Not in clear uptrend"}

\* C13 as stated: a check whose indicator is undefined on the latest bar
\* (the series is shorter than the indicator's window) is not scored through
\* the branch of a defined value that fails, and the reason does not report
\* it as failed or weak.  The cases: Volume_Ratio on fewer than 20 bars in
\* the BTST check, SMA_200 on fewer than 200 bars in the swing checks.
C13_UndefinedNotEvaluable ==
    (ret # None /\ call.fn \in {"check_btst_criteria", "check_swing_criteria"}) =>
        /\ (/\ call.fn = "check_btst_criteria"
            /\ GE(call.current_data.day_change_pct, min_gain_percent)
            /\ call.historical_df.columns = {"Close", "Volume"}
            /\ call.historical_df.len < volume_lookback) =>
              "Volume below 1.5x" \notin Range(ret.reason)
        /\ (/\ call.fn = "check_swing_criteria"
            /\ GatesPassed(call.p, call.fundamentals)
            /\ call.historical_df.columns = {"Close", "Volume"}
            /\ call.historical_df.len >= MinBars
            /\ call.historical_df.len < sma_long) =>
              Range(ret.reason) \cap FailedOrWeakTags = {}

\* C14 as stated: placeholder fundamentals (sector "Unknown", numerics 0)
\* never earn a check its full points: the BTST sector check does not award
\* its 10 points to the sector "Unknown", and a swing check does not pass a
\* symbol whose market cap is the placeholder 0.
C14_PlaceholderConservative ==
    (ret # None /\ call.fn \in {"check_btst_criteria", "check_swing_criteria"}) =>
        /\ (/\ call.fn = "check_btst_criteria"
            /\ call.fundamentals = PLACEHOLDER
            /\ GE(call.current_data.day_change_pct, min_gain_percent)) =>
              "Sector" \notin Range(ret.reason)
        /\ (/\ call.fn = "check_swing_criteria"
            /\ call.fundamentals.sector = "Unknown"
            /\ call.fundamentals.market_cap = 0) =>
              ~ret.passes /\ ret.score = 0

\* the multiplier table of a market, in percent
TargetTable(p, entry_type) ==
    CASE entry_type = "breakout" -> IF p = "AU" THEN au_breakout ELSE in_breakout
      [] entry_type = "pullback" -> IF p = "AU" THEN au_pullback ELSE in_pullback
      [] entry_type \in {"macd_cross", "ma_cross", "trend_follow"} ->
            IF p = "AU" THEN au_other ELSE in_other

\* the latest close of a candidate's series, in thousandths
LatestClose(c) == historical_data_dict[c.symbol].bars.close

\* C15 as stated: target and stop_loss of every swing candidate in the
\* output are the candidate's price (its current_price field, in cents)
\* times the multipliers of its entry_type, rounded to 2 decimals.
C15_TargetsFromCandidatePrice ==
    (Done /\ Swing) => \A k \in 1..Len(result) :
        /\ result[k].entry_type \in KnownEntryTypes
        /\ result[k].target =
              Round2(result[k].current_price
                        * TargetTable(policy, result[k].entry_type).target, 100)
        /\ result[k].stop_loss =
              Round2(result[k].current_price
                        * TargetTable(policy, result[k].entry_type).stop, 100)

\* C15 amended: target and stop_loss of every swing candidate in the output
\* are the latest close of its series, before rounding, times the
\* multipliers of its entry_type, rounded to 2 decimals; the candidate's
\* current_price is that close rounded to 2 decimals.
C15_TargetsFromLatestClose ==
    (Done /\ Swing) => \A k \in 1..Len(result) :
        /\ result[k].entry_type \in KnownEntryTypes
        /\ result[k].current_price = Round2(LatestClose(result[k]), 10)
        /\ result[k].target =
              Round2(LatestClose(result[k])
                        * TargetTable(policy, result[k].entry_type).target, 1000)
        /\ result[k].stop_loss =
              Round2(LatestClose(result[k])
                        * TargetTable(policy, result[k].entry_type).stop, 1000)

\* C15 witness: an India pullback candidate whose close 10.014 is stored as
\* 10.01 is returned with target 11.02 (10.014 x 1.10) and stop 9.31.
C15_Witness ==
    /\ Done
    /\ policy = "IN"
    /\ \E k \in 1..Len(result) :
          /\ result[k].entry_type = "pullback"
          /\ LatestClose(result[k]) = 10014
          /\ result[k].current_price = 1001
          /\ result[k].target = 1102
          /\ result[k].stop_loss = 931

\* the reason tags of the full-marks branch of every scored check of a policy
FullMarks(c) ==
    IF c.fn = "check_btst_criteria"
    THEN {"Gain ideal 2-3%", "Volume x average", "Closing near high", "Above 20 EMA",
          "Sector"}
    ELSE IF c.p = "IN"
    THEN {"Fundamentals", "Above all MAs", "RSI ideal range", "MACD bullish",
          "Volume x average", "Preferred sector"}
    ELSE {"Fundamentals", "Above all MAs", "RSI ideal range", "Near 52W high",
          "MACD bullish", "Volume x average"}

\* C16 as stated: in every policy the full point values of the checks sum
\* to 100 before the sector weight: an input that earns every check its full
\* points has the unweighted score 100.
C16_FullMarksSumTo100 ==
    (/\ ret # None
     /\ call.fn \in {"check_btst_criteria", "check_swing_criteria"}
     /\ FullMarks(call) \subseteq Range(ret.reason)) =>
        ret.score = 100 * ret.sector_weight

\* the value of an indicator on the latest bar of a raw series, once the
\* indicators are computed
LatestValue(df, c) == LatestRow(df)[c]

\* C17: check_btst_criteria returns score 100 and passed=true whenever
\* day_change_pct is within [min_gain_percent, max_gain_percent] (bounds
\* included), the latest Volume_Ratio is >= min_volume_multiplier,
\* high_proximity_pct >= 90, the latest Close > EMA_20 and the sector is not
\* excluded.
C17_BtstFullScore ==
    (/\ ret # None
     /\ call.fn = "check_btst_criteria"
     /\ call.current_data.day_change_pct >= min_gain_percent
     /\ call.current_data.day_change_pct <= max_gain_percent
     /\ call.historical_df.columns = {"Close", "Volume"}
     /\ LatestValue(call.historical_df, "Volume_Ratio") # NaN
     /\ LatestValue(call.historical_df, "Volume_Ratio") >= btst_min_volume_multiplier
     /\ call.current_data.high_proximity_pct >= 9000
     /\ call.historical_df.bars.close > call.historical_df.bars.ema_20
     /\ call.fundamentals.sector \notin BTST_EXCLUDED_SECTORS) =>
        /\ ~ret.raised
        /\ ret.passes
        /\ ret.score = 10000

\* C17 witness: every input sits on its bound (gain 3.5%, volume ratio 1.5,
\* high proximity 90) and the check returned 100.
C17_Witness ==
    /\ ret # None
    /\ call.fn = "check_btst_criteria"
    /\ call.current_data.day_change_pct = max_gain_percent
    /\ call.current_data.high_proximity_pct = 9000
    /\ LatestValue(call.historical_df, "Volume_Ratio") = btst_min_volume_multiplier
    /\ ret.passes
    /\ ret.score = 10000

\* the same call with the day gain moved into the ideal band
WithIdealGain(c) ==
    check_btst_criteria([c.current_data EXCEPT !.day_change_pct = min_gain_percent],
                        calculate_technical_indicators(c.historical_df),
                        c.fundamentals)

\* C18: check_btst_criteria rejects at once every input whose
\* day_change_pct is below min_gain_percent (passed=false, score 0, the only
\* reason is the "below 2%" one), whatever the other inputs are; a
\* day_change_pct above max_gain_percent is not rejected, it is scored with
\* 15 points for the gain where the ideal band earns 30.
C18_BtstGainGate ==
    (ret # None /\ call.fn = "check_btst_criteria") =>
        /\ call.current_data.day_change_pct < min_gain_percent =>
              /\ ~ret.raised
              /\ ~ret.passes
              /\ ret.score = 0
              /\ ret.reason = <<"Gain below 2%">>
        /\ call.current_data.day_change_pct > max_gain_percent =>
              /\ ~ret.raised
              /\ Head(ret.reason) = "Gain >3%, may be overbought"
              /\ Len(ret.reason) > 1
              /\ ret.score = WithIdealGain(call).score - 1500
              /\ ret.score >= 1500

\* C18 witness: a 1% gain with every other input at full marks was
\* rejected with score 0.
C18_Witness ==
    /\ ret # None
    /\ call.fn = "check_btst_criteria"
    /\ call.current_data.day_change_pct = 100
    /\ call.current_data.high_proximity_pct = 9500
    /\ call.historical_df.len = 30
    /\ call.historical_df.columns = {"Close", "Volume"}
    /\ call.historical_df.bars.volume_ratio = 160
    /\ call.historical_df.bars.ema_20 = 9500
    /\ call.fundamentals.sector = "DEFENCE"
    /\ WithIdealGain(call).score = 10000
    /\ ret.score = 0
    /\ ~ret.passes

\* C19: whenever check_swing_criteria returns passed=true the entry type it
\* returns is one of pullback, macd_cross, breakout, ma_cross, trend_follow,
\* never "none" and never the empty string.
C19_PassedHasEntryType ==
    (ret # None /\ call.fn = "check_swing_criteria" /\ ~ret.raised /\ ret.passes) =>
        /\ ret.entry_type \in KnownEntryTypes
        /\ ret.entry_type \notin {"none", ""}

\* C19 witness: neither the RSI nor the MACD block set an entry type (RSI in
\* the ideal band, MACD bullish for more than one bar), there is no
\* breakout and no moving-average crossover, and the passing check returned
\* the last fallback, trend_follow.
C19_Witness ==
    /\ ret # None
    /\ call.fn = "check_swing_criteria"
    /\ call.historical_df.bars.rsi = 50
    /\ call.historical_df.bars.prev_macd_hist = 1
    /\ call.historical_df.bars.volume_ratio = 130
    /\ call.historical_df.bars.prev_ema_50 = 8900
    /\ ret.passes
    /\ ret.entry_type = "trend_follow"

\* C20 as stated: on a full window the RSI is a value in [0, 100], never an
\* undefined one, and it is 100 whenever every close-to-close delta of the
\* window is non-negative, flat prices included.
C20_RsiBoundedAndSaturating ==
    (ret # None /\ call.fn = "calculate_rsi") =>
        /\ ret.rsi # NaN
        /\ ret.rsi >= 0
        /\ ret.rsi <= 100
        /\ (\A k \in 1..rsi_period : call.closes[k + 1] >= call.closes[k]) =>
              ret.rsi = 100

\* C21: the mapping batch_fetch_fundamentals returns has an entry for every
\* symbol of its input list; a symbol whose lookup fails is mapped to the
\* placeholder (sector "Unknown", numerics 0), the others to what the lookup
\* yielded, and no other symbol has an entry.
C21_FundamentalsAlwaysPresent ==
    (ret # None /\ call.fn = "batch_fetch_fundamentals") =>
        /\ ~ret.raised
        /\ \A s \in Range(call.symbols) :
              /\ ret.results[s] # None
              /\ call.info[s] = LookupFailed => ret.results[s] = PLACEHOLDER
              /\ call.info[s] # LookupFailed => ret.results[s] = call.info[s]
        /\ \A s \in Symbols \ Range(call.symbols) : ret.results[s] = None

\* C21 witness: of two symbols the lookup of the first failed and that of
\* the second succeeded; the first is mapped to the placeholder.
C21_Witness ==
    /\ ret # None
    /\ call.fn = "batch_fetch_fundamentals"
    /\ call.symbols = <<"A", "B">>
    /\ call.info["A"] = LookupFailed
    /\ call.info["B"] # LookupFailed
    /\ ret.results["A"] = PLACEHOLDER
    /\ ret.results["B"].market_cap = 60000

\* C22: calculate_technical_indicators does not mutate its input: after the
\* call the caller's frame has the columns it had before, and the indicator
\* columns exist only on the returned frame; so too when a statement of the
\* computation raised and a part of the columns was added.
C22_InputNotMutated ==
    (ret # None /\ call.fn = "calculate_technical_indicators") =>
        ret.input_columns = call.df.columns

\* the frame the scan fetched keeps its columns while the symbols are analysed
C22_ScanFrameNotMutated ==
    \A s \in Symbols :
        historical_data_dict[s] # None =>
            historical_data_dict[s].columns \subseteq {"Close", "Volume"}

\* what the code does instead: the caller's frame and the returned frame
\* carry the same columns
C22_InputCarriesReturnedColumns ==
    (ret # None /\ call.fn = "calculate_technical_indicators") =>
        ret.input_columns = ret.df.columns

\* the days on which the histogram changed sign from <= 0 to > 0
SignChanges(hists, n) == {t \in 1..n : hists[t + 1] > 0 /\ hists[t] <= 0}

\* the days on which the evaluation returned entry_type macd_cross
Flagged(rs) == {t \in 1..Len(rs) : rs[t].entry_type = "macd_cross"}

\* C23: an evaluation flags macd_cross exactly when the latest histogram is
\* > 0 and the one of the bar before is <= 0, and not when the bar before
\* was already > 0; over consecutive daily evaluations a single sign change
\* is flagged exactly once, on the day of the change.
C23_CrossoverFlaggedOnceAtSignChange ==
    (call # None /\ call.fn = "daily_evaluations") =>
        /\ Flagged(ret) = SignChanges(call.hists, Len(ret))
        /\ \A t \in 1..Len(ret) :
              (call.hists[t + 1] > 0 /\ call.hists[t] > 0) =>
                  ret[t].entry_type # "macd_cross"
        /\ (Len(ret) = DailyBars /\ Cardinality(SignChanges(call.hists, DailyBars)) = 1) =>
              Cardinality(Flagged(ret)) = 1

\* C23 witness: the histogram turns positive on the second day and stays
\* positive; the RSI sits in the pullback band on every day; the second day
\* alone is flagged.
C23_Witness ==
    /\ call # None
    /\ call.fn = "daily_evaluations"
    /\ call.rsi = 32
    /\ Len(ret) = DailyBars
    /\ call.hists[1] = -2 /\ call.hists[2] = 0
    /\ \A t \in 3..(DailyBars + 1) : call.hists[t] = 3
    /\ Flagged(ret) = {2}
    /\ ret[3].entry_type = "pullback"

\* the direct call reached the fallback with no entry type set: enough
\* bars, the gates passed, the RSI outside the pullback band, no fresh MACD
\* crossover on the latest bar
ReachedFallbackUnset ==
    /\ ret # None
    /\ call.fn = "check_swing_criteria"
    /\ call.historical_df.columns = {"Close", "Volume"}
    /\ call.historical_df.len >= MinBars
    /\ GatesPassed(call.p, call.fundamentals)
    /\ LET b == call.historical_df.bars
       IN  /\ ~(b.rsi # NaN /\ b.rsi > pullback_floor /\ b.rsi < pullback_ceiling(call.p))
           /\ ~(b.macd > b.macd_signal /\ b.prev_macd_hist <= 0)

BreakoutCondition(b) ==
    /\ b.close * 100 > b.ema_20 * 102
    /\ b.volume_ratio # NaN
    /\ b.volume_ratio > 150

MaCrossCondition(b) == b.ema_20 > b.ema_50 /\ b.prev_ema_20 <= b.prev_ema_50

\* C24: when neither pullback nor macd_cross applies, the entry type is
\* breakout if the close is more than 2% above EMA_20 and Volume_Ratio is
\* strictly above 1.5; otherwise ma_cross if EMA_20 > EMA_50 on the latest
\* bar and EMA_20 <= EMA_50 on the previous one; otherwise trend_follow.  A
\* bar with both conditions is a breakout.
C24_FallbackClassification ==
    ReachedFallbackUnset =>
        LET b == call.historical_df.bars
        IN  /\ ~ret.raised
            /\ ret.entry_type =
                  IF BreakoutCondition(b) THEN "breakout"
                  ELSE IF MaCrossCondition(b) THEN "ma_cross"
                  ELSE "trend_follow"

\* C24 witness: the latest bar is a breakout and a moving-average crossover
\* at once, and the check returned breakout.
C24_Witness ==
    /\ ReachedFallbackUnset
    /\ BreakoutCondition(call.historical_df.bars)
    /\ MaCrossCondition(call.historical_df.bars)
    /\ ret.entry_type = "breakout"

\* the boundaries: a volume ratio of exactly 1.5 and a close 1.996% above
\* EMA_20 are no breakout
C24_BoundaryWitness ==
    /\ ReachedFallbackUnset
    /\ call.historical_df.bars.volume_ratio = 150
    /\ call.historical_df.bars.ema_20 = 9500
    /\ call.historical_df.bars.prev_ema_50 = 9000
    /\ ret.entry_type = "ma_cross"

\* the positions in the log of main's calls of op
Calls(op) == {k \in 1..Len(ret.log) : ret.log[k].op = op}

InMain == call # None /\ call.fn = "main"

\* C25: with scan_type "both" and a configuration that validates, a BTST
\* scan that raises is followed by an error notification, then by the
\* swing scan; when main is done send_completion_summary was called exactly
\* once, after both scans, with btst_success false; and a results
\* notification of a scan is in the log only if that scan returned at least
\* one candidate.
C25_ScansIsolated ==
    (InMain /\ call.scan_type = "both" /\ call.valid) =>
        /\ \A k \in Calls("notify_btst_results") :
              ~call.btst.raised /\ call.btst.count >= 1
        /\ \A k \in Calls("notify_swing_results") :
              ~call.swing.raised /\ call.swing.count >= 1
        /\ Cardinality(Calls("send_completion_summary")) <= 1
        /\ \A k \in Calls("send_completion_summary") :
              /\ Calls("run_btst_scan") # {} /\ Calls("run_swing_scan") # {}
              /\ \A j \in Calls("run_btst_scan") \cup Calls("run_swing_scan") : j < k
        /\ ret.pc = "done" =>
              /\ Cardinality(Calls("send_completion_summary")) = 1
              /\ Cardinality(Calls("run_btst_scan")) = 1
              /\ Cardinality(Calls("run_swing_scan")) = 1
              /\ ret.exit_code = 0
        /\ (call.btst.raised /\ ret.pc \in {"swing", "summary", "done"}) =>
              /\ Len(ret.log) >= 2
              /\ ret.log[1].op = "run_btst_scan"
              /\ ret.log[2].op = "notify_error"
              /\ ret.pc \in {"summary", "done"} => ret.log[3].op = "run_swing_scan"
              /\ \A k \in Calls("send_completion_summary") :
                    ~ret.log[k].btst_success
        /\ ret.pc # "exited"

\* C25 witness: the BTST scan raised, the swing scan returned two
\* candidates, and main is done: error notification, swing scan, swing
\* results notification, one summary with btst_success false.
C25_Witness ==
    /\ InMain
    /\ call.scan_type = "both"
    /\ call.valid
    /\ call.btst.raised
    /\ call.swing.count = 2
    /\ ret.pc = "done"
    /\ Calls("notify_error") = {2}
    /\ Calls("run_swing_scan") = {3}
    /\ Calls("notify_swing_results") = {4}
    /\ Calls("send_completion_summary") = {5}
    /\ ~ret.log[5].btst_success
    /\ ret.log[5].swing_count = 2

\* the posted texts put one behind the other
RECURSIVE Concat(_)
Concat(ps) == IF ps = <<>> THEN <<>> ELSE Head(ps).text \o Concat(Tail(ps))

LongMessage ==
    /\ call # None
    /\ call.fn = "send_telegram"
    /\ call.SEND_TELEGRAM
    /\ Len(call.message) > max_length

\* C26: with Telegram enabled a message of more than 4000 characters is
\* posted as parts of at most 4000 characters, in order: the posted texts
\* put together are the message up to the last post, and the whole message
\* once send_telegram returned True.  True is returned only if every part
\* was posted successfully; a failed post is the last post made, and False
\* is returned.
C26_LongMessageSplitInOrder ==
    LongMessage =>
        /\ \A k \in 1..Len(ret.posts) :
              /\ Len(ret.posts[k].text) <= max_length
              /\ Len(ret.posts[k].text) >= 1
              /\ ret.posts[k].outcome # "ok" => (k = Len(ret.posts) /\ ret.pc = "done")
        /\ Concat(ret.posts) = SubSeq(call.message, 1, Len(Concat(ret.posts)))
        /\ (ret.pc = "done" /\ ret.returned) =>
              /\ Concat(ret.posts) = call.message
              /\ \A k \in 1..Len(ret.posts) : ret.posts[k].outcome = "ok"
        /\ (ret.pc = "done" /\ ~ret.returned) =>
              /\ ret.posts # <<>>
              /\ ret.posts[Len(ret.posts)].outcome # "ok"

\* C26 witness: a message of 8001 characters went out as 4000, 4000 and 1
\* characters and True was returned.
C26_Witness ==
    /\ LongMessage
    /\ Len(call.message) = 2 * max_length + 1
    /\ ret.pc = "done"
    /\ ret.returned
    /\ Len(ret.posts) = 3
    /\ Len(ret.posts[3].text) = 1

\* the second of three parts failed, the third was never posted
C26_FailureWitness ==
    /\ LongMessage
    /\ Len(call.message) = 2 * max_length + 1
    /\ ret.pc = "done"
    /\ ~ret.returned
    /\ Len(ret.posts) = 2
    /\ ret.posts[2].outcome = "HTTP error"

\* C27: every candidate a swing scan returns has its stop below its price
\* and its price below its target, whatever the price, prices of a few
\* cents included.
C27_StopBelowPriceBelowTarget ==
    (Done /\ Swing) =>
        \A k \in 1..Len(result) :
            /\ result[k].stop_loss < result[k].current_price
            /\ result[k].current_price < result[k].target

\* at a price of 100.00 and more the three amounts are apart
C27_ApartFromOneHundred ==
    (Done /\ Swing) =>
        \A k \in 1..Len(result) :
            result[k].current_price >= 10000 =>
                /\ result[k].stop_loss < result[k].current_price
                /\ result[k].current_price < result[k].target

\* C28: no symbol appears more than once among the candidates collected or
\* in the list a scan returns, also when the input list names a symbol
\* several times.
C28_NoDuplicateSymbols ==
    /\ \A j, k \in 1..Len(candidates) :
          j # k => candidates[j].symbol # candidates[k].symbol
    /\ \A j, k \in 1..Len(result) :
          j # k => result[j].symbol # result[k].symbol
    /\ \A j, k \in 1..Len(filtered_symbols) :
          j # k => filtered_symbols[j] # filtered_symbols[k]

\* C28 witness: the input list names the same symbol twice, the symbol
\* passes, and the scan returned it once.
C28_Witness ==
    /\ Done
    /\ policy = "AU"
    /\ symbols = <<"A", "A">>
    /\ Len(result) = 1
    /\ result[1].symbol = "A"

\* C29: what the pre-filter of a scan removes, the full criteria check
\* rejects on the same data: a snapshot the BTST pre-filter drops fails
\* check_btst_criteria with every series and every fundamentals, and
\* fundamentals the swing pre-filter drops fail check_swing_criteria with
\* every series.
C29_PrefilterSound ==
    /\ (ret # None /\ call.fn = "check_btst_criteria"
            /\ ~btst_prefilter(call.current_data)) =>
          (~ret.raised /\ ~ret.passes)
    /\ (ret # None /\ call.fn = "check_swing_criteria"
            /\ ~swing_prefilter(call.p, call.fundamentals)) =>
          (~ret.raised /\ ~ret.passes)

\* C29 witness: a snapshot with a gain of 1.99%, just under the minimum,
\* on a strong series near the day's high, and the check rejected it.
C29_Witness ==
    /\ ret # None
    /\ call.fn = "check_btst_criteria"
    /\ call.current_data.day_change_pct = 199
    /\ call.current_data.high_proximity_pct = 9500
    /\ call.historical_df.len = 30
    /\ call.historical_df.columns = {"Close", "Volume"}
    /\ call.historical_df.bars.volume_ratio = 160
    /\ call.historical_df.bars.ema_20 = 9500
    /\ call.fundamentals.sector = "DEFENCE"
    /\ ~btst_prefilter(call.current_data)
    /\ ~ret.passes

\* fundamentals with too much debt on a series that scores full marks
C29_SwingWitness ==
    /\ ret # None
    /\ call.fn = "check_swing_criteria"
    /\ call.fundamentals.market_cap = 60000
    /\ call.fundamentals.debt_to_equity = 120
    /\ call.fundamentals.roe = 15
    /\ call.historical_df.len = 250
    /\ call.historical_df.bars = OneBars
    /\ ~swing_prefilter(call.p, call.fundamentals)
    /\ ~ret.passes

\* the latest bar of the symbol is in a full uptrend: close above EMA_20
\* above EMA_50 above the mean of the last 200 closes
FullUptrend(b) == b.close > b.ema_20 /\ b.ema_20 > b.ema_50 /\ b.ema_50 > b.sma_200

\* C30: the 20-point trend tier of the India swing policy is reachable in a
\* scan: a symbol in a full uptrend that the India scan returns was awarded
\* "Above all MAs", its SMA_200 being defined on the latest bar of the
\* series the scan obtained.
C30_FullTrendTierAwarded ==
    (Done /\ policy = "IN") =>
        \A k \in 1..Len(result) :
            FullUptrend(historical_data_dict[result[k].symbol].bars) =>
                "Above all MAs" \in Range(result[k].reason)

\* what the India scan does instead: no series of its lookback has SMA_200
\* defined, no candidate is awarded the tier, and no score exceeds 95
C30_TierNeverAwardedInIndia ==
    policy = "IN" =>
        /\ \A s \in Symbols :
              historical_data_dict[s] # None =>
                  Indicators("IN", historical_data_dict[s]).latest["SMA_200"] = NaN
        /\ \A k \in 1..Len(candidates) :
              /\ "Above all MAs" \notin Range(candidates[k].reason)
              /\ candidates[k].score <= 9500

\* the Australian scan, with its 300-day lookback, awards the tier
C30_AustraliaWitness ==
    /\ Done
    /\ policy = "AU"
    /\ Len(result) >= 1
    /\ "Above all MAs" \in Range(result[1].reason)

====
